---- MODULE Spec2Model ----
(***************************************************************************)
(* State-machine model of cs50/pagerank/pagerank.py: transition_model,     *)
(* weighted_choose, sample_pagerank and iterate_pagerank.                  *)
(*                                                                         *)
(* Numbers.  The program computes in binary floating point.  The model     *)
(* computes in decimal fixed point: a real x is the integer x * One, and   *)
(* every division rounds to the nearest unit (RoundDiv), as every float    *)
(* operation rounds to the nearest float.  damping_factor is kept in       *)
(* hundredths (DAMPING = 0.85 is 85) so that products stay in range.       *)
(*                                                                         *)
(* Pages are 1..N in the corpus dict's insertion order; a corpus is a      *)
(* function from 1..N to the set of pages each page links to (crawl        *)
(* removes self links and links that leave the corpus).                    *)
(*                                                                         *)
(* The clock decorator only times and prints a call; main only crawls,     *)
(* calls and prints.  Neither changes what a call computes, and neither    *)
(* is modelled: every call is made directly, on inputs from small sets.    *)
(***************************************************************************)
EXTENDS Integers, Sequences, FiniteSets

VARIABLES
    pc,              \* where the program is: "ready", "sample_loop", "sample_returned",
                     \* "sweep", "iterate_returned", "chosen", "raised"
    error,           \* the exception that ended a call, "" when none
    corpus,          \* argument: page -> set of linked pages
    damping_factor,  \* argument, in hundredths
    n,               \* sample_pagerank's argument n
    i,               \* sample_pagerank: iterations of `for i in range(n)` done
    inc,             \* sample_pagerank: 1/n
    current_page,    \* sample_pagerank: the walk's position
    ranking_dict,    \* sample_pagerank: page -> accumulated rank
    all_prob,        \* sample_pagerank: page -> transition_model of that page
    rank_dict_c,     \* iterate_pagerank: page -> <<previous rank, current rank>>
    page_idx,        \* iterate_pagerank: position of `for page in corpus.keys()`
    prob_matrix,     \* weighted_choose called on its own: its argument
    chosen           \* weighted_choose called on its own: its result

vars == <<pc, error, corpus, damping_factor, n, i, inc, current_page,
          ranking_dict, all_prob, rank_dict_c, page_idx, prob_matrix, chosen>>

-----------------------------------------------------------------------------
(* Bounds of the model and constants of the program.                        *)

\* Largest corpus, in pages.
MaxNodes == 3
\* Largest corpus sample_pagerank is run on in SampleSpec.
MaxWalkNodes == 2
\* Largest sample count n.
MaxSamples == 3

\* The fixed-point unit: the integer that stands for 1.0.
One == 10^7
\* damping_factor is counted in 1/DUnit.
DUnit == 10^2
\* DAMPING = 0.85
DAMPING == 85
\* normal_factor = 1000
normal_factor == 1000
\* epsilon = 0.00001
epsilon == One \div 10^5
\* the 0.001 of `if r <= 0.001`, in the unit of the scaled weights (One / normal_factor)
ScaledOne == One \div normal_factor
r_slack == ScaledOne \div 10^3
\* what weighted_choose returns when its loop ends without a return
None == 0

-----------------------------------------------------------------------------
(* Arithmetic.                                                              *)

Abs(x) == IF x < 0 THEN -x ELSE x

\* a / b rounded to the nearest unit (halves up), b # 0.
RoundDiv(a, b) ==
    LET num == IF b < 0 THEN -a ELSE a
        den == Abs(b)
        q == num \div den
        rem == num % den
    IN  IF 2 * rem >= den THEN q + 1 ELSE q

\* int(a / b): truncation towards zero, b > 0.
Trunc(a, b) == IF a >= 0 THEN a \div b ELSE -((-a) \div b)

RECURSIVE SumTo(_, _)
\* f[1] + ... + f[k]
SumTo(f, k) == IF k = 0 THEN 0 ELSE SumTo(f, k - 1) + f[k]

\* sum(d.values()) of a dict over pages 1..N
Sum(f) == SumTo(f, Cardinality(DOMAIN f))

\* the value of damping_factor as a fixed-point number
Frac(d) == (d * One) \div DUnit

-----------------------------------------------------------------------------
(* Inputs.                                                                  *)

\* The corpora over pages 1..k: no page links to itself.
GraphsOn(k) == {c \in [1..k -> SUBSET (1..k)] : \A p \in 1..k : p \notin c[p]}

\* Every corpus of at most `most` pages.
GraphsUpTo(most) == UNION {GraphsOn(k) : k \in 1..most}

\* damping factors in [0, 1], in hundredths
Dampings == {0, 50, DAMPING, DUnit}
\* damping factors outside [0, 1]
BadDampings == {-50, 2 * DUnit}

InUnitInterval(d) == 0 <= d /\ d <= DUnit

\* sample counts: negative, zero and positive
SampleCounts == -1..MaxSamples

\* c is one directed cycle through all its k >= 2 pages
IsCycle(c) ==
    LET k == Cardinality(DOMAIN c)
        RECURSIVE Walk(_, _)
        \* the pages met in `steps` steps from page p, p included
        Walk(p, steps) ==
            IF steps = 0 THEN {p}
            ELSE {p} \cup Walk(CHOOSE q \in c[p] : TRUE, steps - 1)
    IN  /\ k >= 2
        /\ \A p \in DOMAIN c : Cardinality(c[p]) = 1
        /\ \A p \in DOMAIN c : Cardinality({q \in DOMAIN c : p \in c[q]}) = 1
        /\ Walk(1, k - 1) = DOMAIN c

CycleGraphs == {c \in GraphsUpTo(MaxNodes) : IsCycle(c)}

\* The distributions weighted_choose is called with on its own: two pages,
\* weights that sum to 1, among them weights finer than 1/normal_factor.
ChoiceWeights ==
    {0, One \div 2000, One \div 10, One \div 2, One - One \div 10,
     One - One \div 2000, One}
Distributions == {p \in [1..2 -> ChoiceWeights] : p[1] + p[2] = One}

-----------------------------------------------------------------------------
(* transition_model                                                         *)

\* hop_chance = 1 - damping_factor
TransitionHopChance(c, d) == One - Frac(d)

TransitionModel(c, page, d) ==
    LET hop_chance == TransitionHopChance(c, d)
        outgoing == c[page]
        outgoing_degree == Cardinality(outgoing)
        move_on == IF outgoing_degree > 0
                   THEN RoundDiv(Frac(d), outgoing_degree)
                   ELSE 0
    IN  [k \in DOMAIN c |->
            IF k \in outgoing /\ hop_chance + move_on > 0
            THEN hop_chance + move_on
            ELSE hop_chance]

-----------------------------------------------------------------------------
(* weighted_choose                                                          *)

\* total_weight = int(sum of the weights times normal_factor).  A weight w
\* times normal_factor is the same integer w counted in units of
\* 1 / ScaledOne, so the scaling itself is exact.
TotalWeight(prob) == Trunc(Sum(prob), ScaledOne)

RECURSIVE ChooseFrom(_, _, _)
\* the loop `for page, weight in prob_matrix.items()` from page k on, r
\* counted in units of 1 / ScaledOne
ChooseFrom(prob, r, k) ==
    IF k > Cardinality(DOMAIN prob) THEN None
    ELSE LET left == r - prob[k]
         IN  IF left <= r_slack THEN k ELSE ChooseFrom(prob, left, k + 1)

\* the page weighted_choose returns when random.randint gives r
WeightedChoose(prob, r) == ChooseFrom(prob, r * ScaledOne, 1)

\* random.randint(1, total_weight) raises ValueError on an empty range
CanDraw(prob) == TotalWeight(prob) >= 1

-----------------------------------------------------------------------------
(* State.                                                                   *)

Empty == << >>

Init ==
    /\ pc = "ready"
    /\ error = ""
    /\ corpus = Empty
    /\ damping_factor = 0
    /\ n = 0
    /\ i = 0
    /\ inc = 0
    /\ current_page = None
    /\ ranking_dict = Empty
    /\ all_prob = Empty
    /\ rank_dict_c = Empty
    /\ page_idx = 0
    /\ prob_matrix = Empty
    /\ chosen = None

sampleVars == <<n, i, inc, current_page, ranking_dict, all_prob>>
iterateVars == <<rank_dict_c, page_idx>>
chooseVars == <<prob_matrix, chosen>>

-----------------------------------------------------------------------------
(* sample_pagerank                                                          *)

\* inc = 1 / n
Increment(cnt) == RoundDiv(One, cnt)

\* Lines 128-132: the call, up to the loop.  1 / 0 raises ZeroDivisionError.
SamplePagerank(c, d, cnt) ==
    /\ pc = "ready"
    /\ corpus' = c
    /\ damping_factor' = d
    /\ n' = cnt
    /\ i' = 0
    /\ current_page' = 1
    /\ ranking_dict' = [k \in DOMAIN c |-> 0]
    /\ all_prob' = [k \in DOMAIN c |-> TransitionModel(c, k, d)]
    /\ IF cnt = 0
       THEN pc' = "raised" /\ error' = "ZeroDivisionError" /\ inc' = 0
       ELSE pc' = "sample_loop" /\ error' = "" /\ inc' = Increment(cnt)
    /\ UNCHANGED <<iterateVars, chooseVars>>

\* Visit with the visit counted whole instead of as 1/n
VisitUnnormalised(ranks, page, by) == [ranks EXCEPT ![page] = @ + One]

\* the rank dictionary after `ranking_dict[current_page] += inc`
Visit(ranks, page, by) == [ranks EXCEPT ![page] = @ + by]

\* Lines 133-136: one iteration of `for i in range(n)`.
SampleStep ==
    /\ pc = "sample_loop"
    /\ i < n
    /\ LET prob_dict == all_prob[current_page]
       IN  /\ ranking_dict' = Visit(ranking_dict, current_page, inc)
           /\ IF CanDraw(prob_dict)
              THEN \E r \in 1..TotalWeight(prob_dict) :
                      /\ current_page' = WeightedChoose(prob_dict, r)
                      /\ i' = i + 1
                      /\ UNCHANGED <<pc, error>>
              ELSE /\ pc' = "raised"
                   /\ error' = "ValueError"
                   /\ UNCHANGED <<current_page, i>>
    /\ UNCHANGED <<corpus, damping_factor, n, inc, all_prob, iterateVars, chooseVars>>

\* Line 137: range(n) is exhausted (at once when n < 0).
SampleReturn ==
    /\ pc = "sample_loop"
    /\ i >= n
    /\ pc' = "sample_returned"
    /\ UNCHANGED <<error, corpus, damping_factor, sampleVars, iterateVars, chooseVars>>

CallSamplePagerank ==
    \E c \in GraphsUpTo(MaxNodes), d \in Dampings \cup BadDampings, cnt \in SampleCounts :
        SamplePagerank(c, d, cnt)

\* sample_pagerank on the small corpora of SampleSpec, damping in [0, 1]
CallSamplePagerankSmall ==
    \E c \in GraphsUpTo(MaxWalkNodes), d \in Dampings, cnt \in SampleCounts :
        SamplePagerank(c, d, cnt)

-----------------------------------------------------------------------------
(* iterate_pagerank                                                         *)
(* The counter `iterations` is written and never read (its print is        *)
(* commented out); the model leaves it out, so that a loop that does not   *)
(* end is a cycle of states.                                               *)

\* HopChance without the division by num_pages (transition_model's hop_chance)
HopChanceUndivided(d, num_pages) == RoundDiv((DUnit - d) * One, DUnit)

\* hop_chance = (1 - damping_factor) / num_pages
HopChance(d, num_pages) == RoundDiv((DUnit - d) * One, DUnit * num_pages)

\* starting_rank = 1 / num_pages
StartingRank(num_pages) == RoundDiv(One, num_pages)

\* the slot of rank_dict_c[x] that line 166 reads: [0], the previous rank
ReadSlot == 1

RECURSIVE TraveledTo(_, _, _, _)
\* sum of rank_dict_c[x][0] / len(corpus[x]) over the pages x <= k that link to page
TraveledTo(c, ranks, page, k) ==
    IF k = 0 THEN 0
    ELSE TraveledTo(c, ranks, page, k - 1)
         + (IF page \in c[k]
            THEN RoundDiv(ranks[k][ReadSlot], Cardinality(c[k]))
            ELSE 0)

\* traveled_chance of lines 165-169
TraveledChance(c, ranks, page) == TraveledTo(c, ranks, page, Cardinality(DOMAIN c))

\* line 170: hop_chance + damping_factor * traveled_chance
NewRank(c, d, ranks, page) ==
    HopChance(d, Cardinality(DOMAIN c))
    + RoundDiv(d * TraveledChance(c, ranks, page), DUnit)

\* Lines 152-159: the call, up to the loop.
IteratePagerank(c, d) ==
    /\ pc = "ready"
    /\ corpus' = c
    /\ damping_factor' = d
    /\ rank_dict_c' = [k \in DOMAIN c |->
                          <<StartingRank(Cardinality(DOMAIN c)),
                            StartingRank(Cardinality(DOMAIN c))>>]
    /\ page_idx' = 1
    /\ pc' = "sweep"
    /\ UNCHANGED <<error, sampleVars, chooseVars>>

\* Lines 163-171: the body of `for page in corpus.keys()` for one page.
IterateSweepPage ==
    /\ pc = "sweep"
    /\ page_idx <= Cardinality(DOMAIN corpus)
    /\ LET page == page_idx
           prev_rank == rank_dict_c[page][2]
       IN  rank_dict_c' =
               [rank_dict_c EXCEPT
                   ![page] = <<prev_rank, NewRank(corpus, damping_factor, rank_dict_c, page)>>]
    /\ page_idx' = page_idx + 1
    /\ UNCHANGED <<pc, error, corpus, damping_factor, sampleVars, chooseVars>>

RECURSIVE ChangeTo(_, _)
\* sum of abs(x[1] - x[0]) over the pages <= k
ChangeTo(ranks, k) ==
    IF k = 0 THEN 0 ELSE ChangeTo(ranks, k - 1) + Abs(ranks[k][2] - ranks[k][1])

\* line 173: total_error
TotalError(ranks) ==
    RoundDiv(ChangeTo(ranks, Cardinality(DOMAIN ranks)), Cardinality(DOMAIN ranks))

\* Lines 173-175 and 161: the test that ends a sweep; break, or sweep again.
IterateCheck ==
    /\ pc = "sweep"
    /\ page_idx = Cardinality(DOMAIN corpus) + 1
    /\ IF TotalError(rank_dict_c) <= epsilon
       THEN pc' = "iterate_returned" /\ UNCHANGED page_idx
       ELSE pc' = "sweep" /\ page_idx' = 1
    /\ UNCHANGED <<error, corpus, damping_factor, rank_dict_c, sampleVars, chooseVars>>

\* line 179: the dictionary iterate_pagerank returns
IterateResult == [k \in DOMAIN rank_dict_c |-> rank_dict_c[k][2]]

CallIteratePagerank ==
    \E c \in GraphsUpTo(MaxNodes), d \in Dampings : IteratePagerank(c, d)

\* iterate_pagerank on one directed cycle, any damping in [0, 1]
CallIteratePagerankOnCycle ==
    \E c \in CycleGraphs, d \in 0..DUnit : IteratePagerank(c, d)

-----------------------------------------------------------------------------
(* weighted_choose called on its own                                        *)

CallWeightedChoose ==
    /\ pc = "ready"
    /\ \E dist \in Distributions :
          /\ CanDraw(dist)
          /\ \E r \in 1..TotalWeight(dist) :
                /\ prob_matrix' = dist
                /\ chosen' = WeightedChoose(dist, r)
    /\ pc' = "chosen"
    /\ UNCHANGED <<error, corpus, damping_factor, sampleVars, iterateVars>>

-----------------------------------------------------------------------------
(* Specifications.                                                          *)

Next ==
    \/ CallSamplePagerank
    \/ SampleStep
    \/ SampleReturn
    \/ CallIteratePagerank
    \/ IterateSweepPage
    \/ IterateCheck
    \/ CallWeightedChoose

\* the whole program, every call on every input
Spec == Init /\ [][Next]_vars

IterateNext == CallIteratePagerank \/ IterateSweepPage \/ IterateCheck

\* iterate_pagerank alone; a running call always takes its next step
IterateFairSpec == Init /\ [][IterateNext]_vars /\ WF_vars(IterateNext)

SampleNext == CallSamplePagerankSmall \/ SampleStep \/ SampleReturn

\* sample_pagerank alone
SampleSpec == Init /\ [][SampleNext]_vars

CycleNext == CallIteratePagerankOnCycle \/ IterateSweepPage \/ IterateCheck

\* iterate_pagerank alone, on directed cycles
CycleSpec == Init /\ [][CycleNext]_vars

-----------------------------------------------------------------------------
(* Properties.                                                              *)

\* a call of sample_pagerank is running, has returned or has raised
InSample == pc \in {"sample_loop", "sample_returned", "raised"}

NumPages == Cardinality(DOMAIN corpus)

\* 1e-6 and 1e-4
Millionth == One \div 10^6
TenThousandth == One \div 10^4

\* C1: for every corpus, every page of it and every damping in [0, 1], the
\* weights transition_model returns are non-negative and sum to 1 (here: to
\* within one rounding unit per weight).
C1_TransitionSumsToOne ==
    (InSample /\ InUnitInterval(damping_factor)) =>
        \A page \in DOMAIN corpus :
            /\ \A x \in DOMAIN corpus : all_prob[page][x] >= 0
            /\ Abs(Sum(all_prob[page]) - One) <= NumPages

\* C2: for a page with outgoing links and damping in [0, 1], page x gets the
\* weight (1 - damping) / |corpus|, plus damping / outdegree when the page
\* links to x (to within the roundings of the two divisions).
C2_TransitionWeights ==
    (InSample /\ InUnitInterval(damping_factor)) =>
        \A page \in DOMAIN corpus :
            corpus[page] # {} =>
                \A x \in DOMAIN corpus :
                    LET base == RoundDiv((DUnit - damping_factor) * One, DUnit * NumPages)
                        link == RoundDiv(damping_factor * One,
                                         DUnit * Cardinality(corpus[page]))
                        want == IF x \in corpus[page] THEN base + link ELSE base
                    IN  Abs(all_prob[page][x] - want) <= 2

\* C3: with damping in [0, 1] and n >= 1, no draw of sample_pagerank raises
\* or comes back without a page: the walk is always on a page of the corpus.
C3_DrawReturnsPage ==
    (InSample /\ InUnitInterval(damping_factor) /\ n >= 1) =>
        /\ pc # "raised"
        /\ current_page \in DOMAIN corpus

\* C4: sample_pagerank called with n <= 0 or damping outside [0, 1] returns
\* no rank vector, and the error that ends it is InvalidArgument.
C4_InvalidArgumentRejected ==
    (InSample /\ (n <= 0 \/ ~InUnitInterval(damping_factor))) =>
        /\ pc # "sample_returned"
        /\ pc = "raised" => error = "InvalidArgument"

\* C5: the rank vector iterate_pagerank returns sums to 1 within 1e-6.
C5_IterateSumsToOne ==
    pc = "iterate_returned" => Abs(Sum(IterateResult) - One) <= Millionth

\* C6: every call of iterate_pagerank ends: the sweep loop does not run
\* for ever.
C6_IterateTerminates == (pc = "sweep") ~> (pc = "iterate_returned")

\* the rank page x had when the previous sweep ended (the starting rank in
\* the first sweep): a page the sweep in progress has passed keeps it in
\* slot [0] (prev_rank), a page it has not reached yet still has it in [1]
RankBeforeSweep(x) ==
    IF x < page_idx THEN rank_dict_c[x][1] ELSE rank_dict_c[x][2]

RECURSIVE RecurrenceSumTo(_, _)
\* sum of oldRank(q) / outdegree(q) over the pages q <= k that link to page
RecurrenceSumTo(page, k) ==
    IF k = 0 THEN 0
    ELSE RecurrenceSumTo(page, k - 1)
         + (IF page \in corpus[k]
            THEN RoundDiv(RankBeforeSweep(k), Cardinality(corpus[k]))
            ELSE 0)

\* C7: every rank a sweep writes is (1 - damping) / |V| + damping * the sum,
\* over the pages q that link to p, of oldRank(q) / outdegree(q), with
\* oldRank the ranks of all pages when the previous sweep ended.
C7_SweepReadsPreviousSweep ==
    [][(pc = "sweep" /\ page_idx <= NumPages /\ page_idx' = page_idx + 1) =>
          rank_dict_c'[page_idx][2] =
              RoundDiv((DUnit - damping_factor) * One, DUnit * NumPages)
              + RoundDiv(damping_factor * RecurrenceSumTo(page_idx, NumPages), DUnit)]_vars

\* the number of draws r for which weighted_choose(prob) returns page x
Favourable(prob, x) ==
    Cardinality({r \in 1..TotalWeight(prob) : WeightedChoose(prob, r) = x})

\* C8: called on weights that sum to 1, weighted_choose returns page x for
\* exactly the fraction prob_matrix[x] of the equally likely draws r, so a
\* page of positive weight is returned for some r.
C8_ChoiceMatchesWeights ==
    pc = "chosen" =>
        \A x \in DOMAIN prob_matrix :
            LET draws == TotalWeight(prob_matrix)
            IN  /\ One % draws = 0
                /\ Favourable(prob_matrix, x) * (One \div draws) = prob_matrix[x]

\* sample_pagerank has returned from a call with n >= 1 and damping in [0, 1]
SampleCompleted ==
    pc = "sample_returned" /\ n >= 1 /\ InUnitInterval(damping_factor)

C10_CycleRanksUniform ==
    IsCycle(corpus) =>
        /\ (pc = "sweep" /\ page_idx = NumPages + 1) =>
               TotalError(rank_dict_c) <= epsilon
        /\ pc = "iterate_returned" =>
               \A p \in DOMAIN corpus :
                   Abs(IterateResult[p] - RoundDiv(One, NumPages)) <= TenThousandth

\* iterate_pagerank has returned on the cycle A -> B -> C -> A, damping 0.85
C10_Witness ==
    /\ pc = "iterate_returned"
    /\ IsCycle(corpus)
    /\ NumPages = 3
    /\ damping_factor = DAMPING

====
